---- MODULE Spec2Model ----
(***************************************************************************)
(* The style helpers of vuelayers (ol-ext/style): the identity accessors   *)
(* getStyleId / setStyleId / initializeStyle and the VlStyle compiler      *)
(* createStyle with its sub-compilers createFillStyle, createStrokeStyle,  *)
(* createImageStyle, createTextStyle and createGeomStyle.                  *)
(*                                                                         *)
(* JavaScript values are tagged records: undefined, null, numbers,         *)
(* strings, arrays, functions and objects.  An object carries its class    *)
(* (Object for a literal, Fill/Stroke/... for an ol style), an identity    *)
(* (oid) and its own properties.  Property names are sequences of          *)
(* characters, because the compilers compute them with upperFirst,         *)
(* lowerFirst and String.replace; string values are sequences of pieces    *)
(* that read concatenated.                                                 *)
(***************************************************************************)
EXTENDS Integers, Sequences, FiniteSets, TLC

VARIABLES
  vlStyle,   \* the VlStyle record handed to the compilers
  style,     \* the object handed to the identity accessors
  call,      \* the last call: [fn, prefix, arg]
  result,    \* the value that call returned (undefined when it threw)
  thrown     \* the message of the Error that call threw, "" when it returned

vars == <<vlStyle, style, call, result, thrown>>

(***************************************************************************)
(* Property and option names, as the characters of the source's literals.  *)
(***************************************************************************)
S_id == <<"i", "d">>
S_name == <<"n", "a", "m", "e">>
S_fill == <<"f", "i", "l", "l">>
S_stroke == <<"s", "t", "r", "o", "k", "e">>
S_image == <<"i", "m", "a", "g", "e">>
S_text == <<"t", "e", "x", "t">>
S_textBackground == <<"t", "e", "x", "t", "B", "a", "c", "k", "g", "r", "o", "u", "n", "d">>
S_line == <<"l", "i", "n", "e">>
S_color == <<"c", "o", "l", "o", "r">>
S_fillColor == <<"f", "i", "l", "l", "C", "o", "l", "o", "r">>
S_strokeColor == <<"s", "t", "r", "o", "k", "e", "C", "o", "l", "o", "r">>
S_strokeWidth == <<"s", "t", "r", "o", "k", "e", "W", "i", "d", "t", "h">>
S_strokeMiterLimit == <<"s", "t", "r", "o", "k", "e", "M", "i", "t", "e", "r", "L", "i", "m", "i", "t">>
S_strokeCap == <<"s", "t", "r", "o", "k", "e", "C", "a", "p">>
S_strokeJoin == <<"s", "t", "r", "o", "k", "e", "J", "o", "i", "n">>
S_strokeDash == <<"s", "t", "r", "o", "k", "e", "D", "a", "s", "h">>
S_strokeDashOffset == <<"s", "t", "r", "o", "k", "e", "D", "a", "s", "h", "O", "f", "f", "s", "e", "t">>
S_width == <<"w", "i", "d", "t", "h">>
S_miterLimit == <<"m", "i", "t", "e", "r", "L", "i", "m", "i", "t">>
S_lineCap == <<"l", "i", "n", "e", "C", "a", "p">>
S_lineJoin == <<"l", "i", "n", "e", "J", "o", "i", "n">>
S_lineDash == <<"l", "i", "n", "e", "D", "a", "s", "h">>
S_lineDashOffset == <<"l", "i", "n", "e", "D", "a", "s", "h", "O", "f", "f", "s", "e", "t">>
S_geom == <<"g", "e", "o", "m">>
S_geometry == <<"g", "e", "o", "m", "e", "t", "r", "y">>
S_zIndex == <<"z", "I", "n", "d", "e", "x">>
S_renderer == <<"r", "e", "n", "d", "e", "r", "e", "r">>
S_textFont == <<"t", "e", "x", "t", "F", "o", "n", "t">>
S_textFontSize == <<"t", "e", "x", "t", "F", "o", "n", "t", "S", "i", "z", "e">>
S_textAlign == <<"t", "e", "x", "t", "A", "l", "i", "g", "n">>
S_textBaseline == <<"t", "e", "x", "t", "B", "a", "s", "e", "l", "i", "n", "e">>
S_textScale == <<"t", "e", "x", "t", "S", "c", "a", "l", "e">>
S_textRotation == <<"t", "e", "x", "t", "R", "o", "t", "a", "t", "i", "o", "n">>
S_textOffsetX == <<"t", "e", "x", "t", "O", "f", "f", "s", "e", "t", "X">>
S_textOffsetY == <<"t", "e", "x", "t", "O", "f", "f", "s", "e", "t", "Y">>
S_textRotateWithView == <<"t", "e", "x", "t", "R", "o", "t", "a", "t", "e", "W", "i", "t", "h", "V", "i", "e", "w">>
S_textPadding == <<"t", "e", "x", "t", "P", "a", "d", "d", "i", "n", "g">>
S_textMaxAngle == <<"t", "e", "x", "t", "M", "a", "x", "A", "n", "g", "l", "e">>
S_textOverflow == <<"t", "e", "x", "t", "O", "v", "e", "r", "f", "l", "o", "w">>
S_textPlacement == <<"t", "e", "x", "t", "P", "l", "a", "c", "e", "m", "e", "n", "t">>
S_font == <<"f", "o", "n", "t">>
S_scale == <<"s", "c", "a", "l", "e">>
S_rotation == <<"r", "o", "t", "a", "t", "i", "o", "n">>
S_offsetX == <<"o", "f", "f", "s", "e", "t", "X">>
S_offsetY == <<"o", "f", "f", "s", "e", "t", "Y">>
S_rotateWithView == <<"r", "o", "t", "a", "t", "e", "W", "i", "t", "h", "V", "i", "e", "w">>
S_padding == <<"p", "a", "d", "d", "i", "n", "g">>
S_maxAngle == <<"m", "a", "x", "A", "n", "g", "l", "e">>
S_overflow == <<"o", "v", "e", "r", "f", "l", "o", "w">>
S_placement == <<"p", "l", "a", "c", "e", "m", "e", "n", "t">>
S_backgroundFill == <<"b", "a", "c", "k", "g", "r", "o", "u", "n", "d", "F", "i", "l", "l">>
S_backgroundStroke == <<"b", "a", "c", "k", "g", "r", "o", "u", "n", "d", "S", "t", "r", "o", "k", "e">>
S_imageSrc == <<"i", "m", "a", "g", "e", "S", "r", "c">>
S_imagePoints == <<"i", "m", "a", "g", "e", "P", "o", "i", "n", "t", "s">>
S_imageRadius == <<"i", "m", "a", "g", "e", "R", "a", "d", "i", "u", "s">>
S_imageRadius1 == <<"i", "m", "a", "g", "e", "R", "a", "d", "i", "u", "s", "1">>
S_imageRadius2 == <<"i", "m", "a", "g", "e", "R", "a", "d", "i", "u", "s", "2">>
S_imageAngle == <<"i", "m", "a", "g", "e", "A", "n", "g", "l", "e">>
S_imageRotation == <<"i", "m", "a", "g", "e", "R", "o", "t", "a", "t", "i", "o", "n">>
S_imageAnchor == <<"i", "m", "a", "g", "e", "A", "n", "c", "h", "o", "r">>
S_imageAnchorOrigin == <<"i", "m", "a", "g", "e", "A", "n", "c", "h", "o", "r", "O", "r", "i", "g", "i", "n">>
S_imageColor == <<"i", "m", "a", "g", "e", "C", "o", "l", "o", "r">>
S_imageOffset == <<"i", "m", "a", "g", "e", "O", "f", "f", "s", "e", "t">>
S_imageOffsetOrigin == <<"i", "m", "a", "g", "e", "O", "f", "f", "s", "e", "t", "O", "r", "i", "g", "i", "n">>
S_imageOpacity == <<"i", "m", "a", "g", "e", "O", "p", "a", "c", "i", "t", "y">>
S_imageScale == <<"i", "m", "a", "g", "e", "S", "c", "a", "l", "e">>
S_imageSize == <<"i", "m", "a", "g", "e", "S", "i", "z", "e">>
S_imageImgSize == <<"i", "m", "a", "g", "e", "I", "m", "g", "S", "i", "z", "e">>
S_imageCrossOrigin == <<"i", "m", "a", "g", "e", "C", "r", "o", "s", "s", "O", "r", "i", "g", "i", "n">>
S_anchor == <<"a", "n", "c", "h", "o", "r">>
S_anchorOrigin == <<"a", "n", "c", "h", "o", "r", "O", "r", "i", "g", "i", "n">>
S_offset == <<"o", "f", "f", "s", "e", "t">>
S_offsetOrigin == <<"o", "f", "f", "s", "e", "t", "O", "r", "i", "g", "i", "n">>
S_opacity == <<"o", "p", "a", "c", "i", "t", "y">>
S_size == <<"s", "i", "z", "e">>
S_img == <<"i", "m", "g">>
S_imgSize == <<"i", "m", "g", "S", "i", "z", "e">>
S_src == <<"s", "r", "c">>
S_crossOrigin == <<"c", "r", "o", "s", "s", "O", "r", "i", "g", "i", "n">>
S_points == <<"p", "o", "i", "n", "t", "s">>
S_radius == <<"r", "a", "d", "i", "u", "s">>
S_radius1 == <<"r", "a", "d", "i", "u", "s", "1">>
S_radius2 == <<"r", "a", "d", "i", "u", "s", "2">>
S_angle == <<"a", "n", "g", "l", "e">>
S_snapToPixel == <<"s", "n", "a", "p", "T", "o", "P", "i", "x", "e", "l">>
S_label == <<"l", "a", "b", "e", "l">>
S_empty == <<>>

\* the same names after a prefix
C_Fill == <<"F", "i", "l", "l">>
C_FillColor == <<"F", "i", "l", "l", "C", "o", "l", "o", "r">>
C_Stroke == <<"S", "t", "r", "o", "k", "e">>
C_StrokeColor == <<"S", "t", "r", "o", "k", "e", "C", "o", "l", "o", "r">>
C_StrokeWidth == <<"S", "t", "r", "o", "k", "e", "W", "i", "d", "t", "h">>
C_StrokeMiterLimit == <<"S", "t", "r", "o", "k", "e", "M", "i", "t", "e", "r", "L", "i", "m", "i", "t">>
C_StrokeCap == <<"S", "t", "r", "o", "k", "e", "C", "a", "p">>
C_StrokeJoin == <<"S", "t", "r", "o", "k", "e", "J", "o", "i", "n">>
C_StrokeDash == <<"S", "t", "r", "o", "k", "e", "D", "a", "s", "h">>
C_StrokeDashOffset == <<"S", "t", "r", "o", "k", "e", "D", "a", "s", "h", "O", "f", "f", "s", "e", "t">>

(***************************************************************************)
(* JavaScript values.                                                      *)
(***************************************************************************)
Undefined == [t |-> "undefined"]

Null == [t |-> "null"]

Num(n) == [t |-> "number", n |-> n]

Str(pieces) == [t |-> "string", s |-> pieces]

Arr(elems) == [t |-> "array", a |-> elems]

Fn(name) == [t |-> "function", f |-> name]

Bool(b) == [t |-> "boolean", b |-> b]

Obj(cls, oid, props) == [t |-> "object", cls |-> cls, oid |-> oid, props |-> props]

\* {} : an object literal without properties
NoProps == <<>>

\* an object literal { ...props }
Literal(props) == Obj("Object", <<"literal">>, props)

\* x == null
IsNullish(x) == x.t \in {"undefined", "null"}

\* the truthiness JavaScript gives x in  x ? a : b,  !!x  and  x || y
Truthy(x) ==
  CASE x.t \in {"undefined", "null"} -> FALSE
    [] x.t = "number" -> x.n # 0
    [] x.t = "string" -> x.s # <<>>
    [] x.t = "boolean" -> x.b
    [] OTHER -> TRUE

\* x || y
Or(x, y) == IF Truthy(x) THEN x ELSE y

\* obj[key]: undefined for a property the object does not have
Get(obj, key) == IF key \in DOMAIN obj.props THEN obj.props[key] ELSE Undefined

\* obj[key] = value, on an options literal under construction
Assign(props, key, value) == (key :> value) @@ props

\* x instanceof cls, for the ol/style classes; Icon, RegularShape and Circle
\* extend ol/style/Image
InstanceOf(x, cls) ==
  /\ x.t = "object"
  /\ \/ x.cls = cls
     \/ cls = "Image" /\ x.cls \in {"Icon", "RegularShape", "Circle"}

\* Object.keys(x).length: the indices of a string or array, the properties of
\* an object literal; an ol style instance holds its private fields besides
\* (checksum_, ...), so it never has none; other values have no keys
ObjectKeysLength(x) ==
  CASE x.t = "string" -> Len(x.s)
    [] x.t = "array" -> Len(x.a)
    [] x.t = "object" ->
         Cardinality(DOMAIN x.props) + (IF x.cls = "Object" THEN 0 ELSE 1)
    [] OTHER -> 0

\* new Ctor(options): a new object, distinct from every other one; `at` is the
\* place of the construction within the running call (style, style.text.fill,
\* ...), which no two constructions of one call share
New(cls, options, at) == Obj(cls, at, options.props)

(***************************************************************************)
(* Characters and strings.                                                 *)
(***************************************************************************)
Lower == <<"a","b","c","d","e","f","g","h","i","j","k","l","m",
           "n","o","p","q","r","s","t","u","v","w","x","y","z">>

Upper == <<"A","B","C","D","E","F","G","H","I","J","K","L","M",
           "N","O","P","Q","R","S","T","U","V","W","X","Y","Z">>

toUpperCase(c) ==
  IF \E i \in 1..Len(Lower) : Lower[i] = c
    THEN Upper[CHOOSE i \in 1..Len(Lower) : Lower[i] = c]
    ELSE c

toLowerCase(c) ==
  IF \E i \in 1..Len(Upper) : Upper[i] = c
    THEN Lower[CHOOSE i \in 1..Len(Upper) : Upper[i] = c]
    ELSE c

\* str.replace(new RegExp(pattern), ''): the first occurrence of the pattern
\* (letters only, so it matches as a literal) is removed
Replace(str, pattern) ==
  LET n == Len(pattern)
      hits == {i \in 1..(Len(str) - n + 1) : SubSeq(str, i, i + n - 1) = pattern}
  IN IF hits = {} THEN str
     ELSE LET i == CHOOSE h \in hits : \A g \in hits : h <= g
          IN SubSeq(str, 1, i - 1) \o SubSeq(str, i + n, Len(str))

(***************************************************************************)
(* util/minilo                                                             *)
(***************************************************************************)
hasProp(object, prop) == prop \in DOMAIN object.props

isFunction(value) == value.t = "function"

\* the strings parseFloat reads as a finite number
NumericStrings == {<<"5">>}

isNumeric(value) ==
  \/ value.t = "number"
  \/ value.t = "string" /\ value.s \in NumericStrings

upperFirst(str) == IF str = <<>> THEN str ELSE <<toUpperCase(Head(str))>> \o Tail(str)

lowerFirst(str) == IF str = <<>> THEN str ELSE <<toLowerCase(Head(str))>> \o Tail(str)

\* pick(object, keys): the named properties, each as object[key]
pick(object, keys) == [k \in keys |-> Get(object, k)]

\* the members of a set, in a sequence
RECURSIVE SeqOf(_)
SeqOf(S) ==
  IF S = {} THEN <<>>
  ELSE LET x == CHOOSE y \in S : TRUE IN <<x>> \o SeqOf(S \ {x})

\* reduce(collection, iteratee, initial) folds iteratee(acc, value, key) over
\* the own keys of the collection, whatever their values: the keys in the
\* order it visits them.  The callers fold over this sequence.
reduce(collection) == SeqOf(DOMAIN collection.props)

(***************************************************************************)
(* parse-color: parseColor(str).rgba, undefined for what it cannot parse.  *)
(***************************************************************************)
parseColorRgba(str) ==
  CASE str = <<"red">> -> Arr(<<255, 0, 0, 1>>)
    [] str = <<"#3399cc">> -> Arr(<<51, 153, 204, 1>>)
    [] OTHER -> Undefined

\* the message of the Error the identity accessors throw
IllegalStyleArgument == "Illegal style argument"

\* what a call of an identity accessor leaves: the object, the value it
\* returned and the message it threw ("" when it returned)
Returned(obj, value) == [obj |-> obj, result |-> value, thrown |-> ""]

Threw(obj, message) == [obj |-> obj, result |-> Undefined, thrown |-> message]

getStyleId(s) ==
  IF hasProp(s, S_id)
    THEN Returned(s, s.props[S_id])
    ELSE Threw(s, IllegalStyleArgument)

\* setStyleId without the hasProp test
setStyleId_Unchecked(s, styleId) ==
  LET s2 == [s EXCEPT !.props = Assign(s.props, S_id, styleId)]
  IN Returned(s2, s2)

setStyleId(s, styleId) ==
  IF hasProp(s, S_id)
    THEN LET s2 == [s EXCEPT !.props = Assign(s.props, S_id, styleId)]
         IN Returned(s2, s2)
    ELSE Threw(s, IllegalStyleArgument)

\* initializeStyle testing !getStyleId(style) in place of getStyleId(style) == null
initializeStyle_Falsy(s, defaultStyleId, uuid) ==
  LET got == getStyleId(s)
  IN IF got.thrown # "" THEN got
     ELSE IF ~Truthy(got.result)
       THEN LET set == setStyleId(s, Or(defaultStyleId, uuid))
            IN IF set.thrown # "" THEN set ELSE Returned(set.obj, set.obj)
       ELSE Returned(s, s)

\* uuid is the value uuid() gives if it is called
initializeStyle(s, defaultStyleId, uuid) ==
  LET got == getStyleId(s)
  IN IF got.thrown # "" THEN got
     ELSE IF IsNullish(got.result)
       THEN LET set == setStyleId(s, Or(defaultStyleId, uuid))
            IN IF set.thrown # "" THEN set ELSE Returned(set.obj, set.obj)
       ELSE Returned(s, s)

isEmpty(x) ==
  IF IsNullish(x) THEN TRUE
  ELSE IF x.t = "number" THEN FALSE
  ELSE \/ x.t \in {"string", "array"} /\ ObjectKeysLength(x) = 0
       \/ ObjectKeysLength(x) = 0

\* addPrefix losing the prefix
addPrefix_DropsPrefix(prefix, str) == str

addPrefix(prefix, str) == prefix \o (IF prefix # <<>> THEN upperFirst(str) ELSE str)

\* normalizeColor leaving a string unparsed
normalizeColor_Unparsed(color) == color

normalizeColor(color) ==
  IF color.t = "string" THEN parseColorRgba(color.s) ELSE color

\* createFillStyle without the test for an already compiled style
createFillStyle_NoReuse(vl, prefix, at) ==
  LET prefixKey(str) == addPrefix(prefix, str)
      keys == {prefixKey(S_fillColor)}
      iteratee(acc, value, name) ==
        IF name \notin keys THEN acc
        ELSE LET name2 == lowerFirst(Replace(name, prefixKey(S_fill)))
                 value2 == IF name2 = S_color THEN normalizeColor(value) ELSE value
             IN Assign(acc, name2, value2)
      visited == reduce(vl)
      fold[i \in 0..Len(visited)] ==
        IF i = 0 THEN NoProps
        ELSE iteratee(fold[i - 1], vl.props[visited[i]], visited[i])
      fillStyle == Literal(fold[Len(visited)])
  IN IF ~isEmpty(fillStyle) THEN New("Fill", fillStyle, at) ELSE Undefined

createFillStyle(vl, prefix, at) ==
  LET prefixKey(str) == addPrefix(prefix, str)
      keys == {prefixKey(S_fillColor)}
      compiledKey == prefixKey(S_fill)
      iteratee(acc, value, name) ==
        IF name \notin keys THEN acc
        ELSE LET name2 == lowerFirst(Replace(name, prefixKey(S_fill)))
                 value2 == IF name2 = S_color THEN normalizeColor(value) ELSE value
             IN Assign(acc, name2, value2)
      visited == reduce(vl)
      fold[i \in 0..Len(visited)] ==
        IF i = 0 THEN NoProps
        ELSE iteratee(fold[i - 1], vl.props[visited[i]], visited[i])
      fillStyle == Literal(fold[Len(visited)])
  IN IF InstanceOf(Get(vl, compiledKey), "Fill") THEN Get(vl, compiledKey)
     ELSE IF ~isEmpty(fillStyle) THEN New("Fill", fillStyle, at)
     ELSE Undefined

createStrokeStyle(vl, prefix, at) ==
  LET prefixKey(str) == addPrefix(prefix, str)
      shortKeys == {prefixKey(S_strokeColor), prefixKey(S_strokeWidth),
                    prefixKey(S_strokeMiterLimit)}
      lineKeys == {prefixKey(S_strokeCap), prefixKey(S_strokeJoin),
                   prefixKey(S_strokeDash), prefixKey(S_strokeDashOffset)}
      keys == shortKeys \cup lineKeys
      compiledKey == prefixKey(S_stroke)
      iteratee(acc, value, name) ==
        IF name \notin keys THEN acc
        ELSE LET name2 ==
                   IF name \in shortKeys
                     THEN lowerFirst(Replace(name, prefixKey(S_stroke)))
                     ELSE S_line \o Replace(name, prefixKey(S_stroke))
                 value2 == IF name2 = S_color THEN normalizeColor(value) ELSE value
             IN Assign(acc, name2, value2)
      visited == reduce(vl)
      fold[i \in 0..Len(visited)] ==
        IF i = 0 THEN NoProps
        ELSE iteratee(fold[i - 1], vl.props[visited[i]], visited[i])
      strokeStyle == Literal(fold[Len(visited)])
  IN IF InstanceOf(Get(vl, compiledKey), "Stroke") THEN Get(vl, compiledKey)
     ELSE IF ~isEmpty(strokeStyle) THEN New("Stroke", strokeStyle, at)
     ELSE Undefined

\* createFillStyle(vlStyle, prefix) || createFillStyle(vlStyle), with the
\* operands the other way round
ScopedFill_UnprefixedFirst(vl, prefix, at) ==
  Or(createFillStyle(vl, S_empty, at), createFillStyle(vl, prefix, at))

\* createFillStyle(vlStyle, prefix) || createFillStyle(vlStyle)
ScopedFill(vl, prefix, at) ==
  Or(createFillStyle(vl, prefix, at), createFillStyle(vl, S_empty, at))

\* createStrokeStyle(vlStyle, prefix) || createStrokeStyle(vlStyle)
ScopedStroke(vl, prefix, at) ==
  Or(createStrokeStyle(vl, prefix, at), createStrokeStyle(vl, S_empty, at))

\* the options of the Icon, RegularShape or Circle, before fill and stroke
IconOptions(vl) ==
  (S_anchor :> Get(vl, S_imageAnchor)) @@
  (S_anchorOrigin :> Get(vl, S_imageAnchorOrigin)) @@
  (S_color :> Get(vl, S_imageColor)) @@
  (S_offset :> Get(vl, S_imageOffset)) @@
  (S_offsetOrigin :> Get(vl, S_imageOffsetOrigin)) @@
  (S_opacity :> Get(vl, S_imageOpacity)) @@
  (S_scale :> Get(vl, S_imageScale)) @@
  (S_rotation :> Get(vl, S_imageRotation)) @@
  (S_size :> Get(vl, S_imageSize)) @@
  (S_img :> Get(vl, S_image)) @@
  (S_imgSize :> Get(vl, S_imageImgSize)) @@
  (S_src :> Get(vl, S_imageSrc)) @@
  (S_crossOrigin :> Get(vl, S_imageCrossOrigin)) @@
  vl.props

RegularShapeOptions(vl) ==
  (S_points :> Get(vl, S_imagePoints)) @@
  (S_radius :> Get(vl, S_imageRadius)) @@
  (S_radius1 :> Get(vl, S_imageRadius1)) @@
  (S_radius2 :> Get(vl, S_imageRadius2)) @@
  (S_angle :> Get(vl, S_imageAngle)) @@
  (S_rotation :> Get(vl, S_imageRotation)) @@
  vl.props

CircleOptions(vl) == (S_radius :> Get(vl, S_imageRadius)) @@ vl.props

\* the constructor chosen with the regular shape tested before the icon
ImageCtor_ShapeFirst(vl) ==
  IF ~IsNullish(Get(vl, S_imagePoints)) THEN "RegularShape"
  ELSE IF ~isEmpty(Get(vl, S_imageSrc)) \/ ~isEmpty(Get(vl, S_image)) THEN "Icon"
  ELSE "Circle"

\* the constructor chosen: Icon, else RegularShape, else Circle
ImageCtor(vl) ==
  IF ~isEmpty(Get(vl, S_imageSrc)) \/ ~isEmpty(Get(vl, S_image)) THEN "Icon"
  ELSE IF ~IsNullish(Get(vl, S_imagePoints)) THEN "RegularShape"
  ELSE "Circle"

\* the options the chosen constructor gets, before fill and stroke
ImageOptions(vl) ==
  CASE ImageCtor(vl) = "Icon" -> IconOptions(vl)
    [] ImageCtor(vl) = "RegularShape" -> RegularShapeOptions(vl)
    [] OTHER -> CircleOptions(vl)

createImageStyle(vl, at) ==
  IF /\ isEmpty(Get(vl, S_imageSrc))
     /\ isEmpty(Get(vl, S_image))
     /\ isEmpty(Get(vl, S_imagePoints))
     /\ ~isNumeric(Get(vl, S_imageRadius))
    THEN Undefined
  ELSE IF InstanceOf(Get(vl, S_image), "Image") THEN Get(vl, S_image)
  ELSE
    LET Ctor == ImageCtor(vl)
        imageStyle == Literal(
          (S_fill :> ScopedFill(vl, S_image, at \o <<"fill">>)) @@
          (S_stroke :> ScopedStroke(vl, S_image, at \o <<"stroke">>)) @@
          (S_snapToPixel :> Bool(TRUE)) @@
          ImageOptions(vl))
    IN IF ~isEmpty(imageStyle) THEN New(Ctor, imageStyle, at) ELSE Undefined

\* String(x), for the strings and numbers a font is made of
ToStringJS(x) ==
  CASE x.t = "string" -> x.s
    [] x.t = "number" -> <<ToString(x.n)>>
    [] OTHER -> <<"[object]">>

\* parts.filter(x => !!x).join(' ')
RECURSIVE JoinTruthy(_)
JoinTruthy(parts) ==
  IF parts = <<>> THEN <<>>
  ELSE LET rest == JoinTruthy(Tail(parts))
       IN IF ~Truthy(Head(parts)) THEN rest
          ELSE IF rest = <<>> THEN ToStringJS(Head(parts))
          ELSE ToStringJS(Head(parts)) \o <<" ">> \o rest

createTextStyle(vl, at) ==
  IF IsNullish(Get(vl, S_text)) THEN Undefined
  ELSE IF InstanceOf(Get(vl, S_text), "Text") THEN Get(vl, S_text)
  ELSE
    LET fontSize == IF Truthy(Get(vl, S_textFontSize))
                      THEN Str(ToStringJS(Get(vl, S_textFontSize)) \o <<"px">>)
                      ELSE Undefined
        font == Str(JoinTruthy(<<Str(<<"normal">>), fontSize, Get(vl, S_textFont)>>))
        textStyle == Literal(
          (S_font :> font) @@
          (S_fill :> ScopedFill(vl, S_text, at \o <<"fill">>)) @@
          (S_stroke :> ScopedStroke(vl, S_text, at \o <<"stroke">>)) @@
          (S_scale :> Get(vl, S_textScale)) @@
          (S_rotation :> Get(vl, S_textRotation)) @@
          (S_offsetX :> Get(vl, S_textOffsetX)) @@
          (S_offsetY :> Get(vl, S_textOffsetY)) @@
          (S_rotateWithView :> Get(vl, S_textRotateWithView)) @@
          (S_padding :> Get(vl, S_textPadding)) @@
          (S_maxAngle :> Get(vl, S_textMaxAngle)) @@
          (S_overflow :> Get(vl, S_textOverflow)) @@
          (S_placement :> Get(vl, S_textPlacement)) @@
          (S_backgroundFill :>
             createFillStyle(vl, S_textBackground, at \o <<"backgroundFill">>)) @@
          (S_backgroundStroke :>
             createStrokeStyle(vl, S_textBackground, at \o <<"backgroundStroke">>)) @@
          pick(vl, {S_textAlign, S_textBaseline}) @@
          (S_text :> Get(vl, S_text)))
    IN IF ~isEmpty(textStyle) THEN New("Text", textStyle, at) ELSE Undefined

createGeomStyle(vl) ==
  IF isFunction(Get(vl, S_geom)) THEN Fn("__styleGeomFunc") ELSE Get(vl, S_geom)

createStyle(vl) ==
  IF isEmpty(vl) THEN Undefined
  ELSE
    LET at == <<"style">>
        olStyle == Literal(
          (S_text :> createTextStyle(vl, at \o <<"text">>)) @@
          (S_fill :> createFillStyle(vl, S_empty, at \o <<"fill">>)) @@
          (S_stroke :> createStrokeStyle(vl, S_empty, at \o <<"stroke">>)) @@
          (S_image :> createImageStyle(vl, at \o <<"image">>)) @@
          (S_geometry :> createGeomStyle(vl)) @@
          (S_zIndex :> Get(vl, S_zIndex)) @@
          (S_renderer :> Get(vl, S_renderer)))
    IN IF ~isEmpty(olStyle) THEN New("Style", olStyle, at) ELSE Undefined

(***************************************************************************)
(* The records and objects the functions are called on.                    *)
(***************************************************************************)
\* the most properties of a record of flat fill and stroke fields
MaxSubKeys == 2

\* the most properties of a record of text, image and style fields
MaxStyleKeys == 3

Prefixes == {S_empty, S_image, S_text, S_textBackground}

\* the property a prefix scopes: fillColor, imageFillColor, textFillColor, ...
Key(prefix, lower, capital) == IF prefix = <<>> THEN lower ELSE prefix \o capital

FillColorKey(p) == Key(p, S_fillColor, C_FillColor)

FillKey(p) == Key(p, S_fill, C_Fill)

StrokeKey(p) == Key(p, S_stroke, C_Stroke)

StrokeColorKey(p) == Key(p, S_strokeColor, C_StrokeColor)

StrokeWidthKey(p) == Key(p, S_strokeWidth, C_StrokeWidth)

StrokeMiterLimitKey(p) == Key(p, S_strokeMiterLimit, C_StrokeMiterLimit)

StrokeCapKey(p) == Key(p, S_strokeCap, C_StrokeCap)

StrokeJoinKey(p) == Key(p, S_strokeJoin, C_StrokeJoin)

StrokeDashKey(p) == Key(p, S_strokeDash, C_StrokeDash)

StrokeDashOffsetKey(p) == Key(p, S_strokeDashOffset, C_StrokeDashOffset)

\* an ol style a caller compiled before and put under `key`
Given(cls, key, props) == Obj(cls, <<"given">> \o key, props)

GivenFill(key) == Given("Fill", key, (S_color :> Arr(<<0, 0, 0, 1>>)))

GivenStroke(key) == Given("Stroke", key, (S_width :> Num(3)))

GivenText == Given("Text", S_text, (S_text :> Str(<<"given">>)))

GivenImage == Given("Circle", S_image, (S_radius :> Num(7)))

\* the <<key, value>> properties a record of flat fill and stroke fields is
\* made of
SubChoices ==
  UNION {
    ({FillColorKey(p)} \X {Undefined, Null, Str(<<"red">>), Arr(<<0, 153, 255, 1>>)})
    \cup {<<FillKey(p), GivenFill(FillKey(p))>>}
    \cup ({StrokeColorKey(p)} \X {Undefined, Str(<<"#3399cc">>), Arr(<<255, 255, 255, 1>>)})
    \cup ({StrokeWidthKey(p)} \X {Undefined, Num(2)})
    \cup {<<StrokeMiterLimitKey(p), Num(10)>>,
          <<StrokeCapKey(p), Str(<<"round">>)>>,
          <<StrokeJoinKey(p), Str(<<"bevel">>)>>,
          <<StrokeDashKey(p), Arr(<<4, 2>>)>>,
          <<StrokeDashOffsetKey(p), Num(1)>>,
          <<StrokeKey(p), GivenStroke(StrokeKey(p))>>}
    : p \in Prefixes}
  \cup {<<S_label, Str(<<"a">>)>>}

\* the <<key, value>> properties a record of text, image and style fields is
\* made of
StyleChoices ==
  ({S_text} \X {Str(<<"abc">>), GivenText})
  \cup ({S_image} \X {GivenImage, Literal(S_src :> Str(<<"canvas">>)), Literal(NoProps)})
  \cup ({S_imageSrc} \X {Str(<<>>), Str(<<"a.png">>)})
  \cup ({S_imagePoints} \X {Num(0), Num(4), Null})
  \cup ({S_imageRadius} \X {Num(5), Str(<<"5">>), Str(<<"big">>)})
  \cup ({S_geom} \X {Fn("geom"), Literal(S_name :> Str(<<"Point">>))})
  \cup {<<S_fillColor, Str(<<"red">>)>>,
        <<S_fill, GivenFill(S_fill)>>,
        <<FillColorKey(S_text), Arr(<<0, 153, 255, 1>>)>>,
        <<FillKey(S_text), GivenFill(FillKey(S_text))>>,
        <<FillColorKey(S_image), Str(<<"#3399cc">>)>>,
        <<FillColorKey(S_textBackground), Str(<<"red">>)>>,
        <<S_strokeWidth, Num(2)>>,
        <<S_stroke, GivenStroke(S_stroke)>>,
        <<StrokeWidthKey(S_text), Num(1)>>,
        <<StrokeColorKey(S_image), Str(<<"red">>)>>,
        <<StrokeWidthKey(S_textBackground), Num(4)>>,
        <<S_textFontSize, Num(12)>>,
        <<S_zIndex, Num(9)>>,
        <<S_renderer, Fn("renderer")>>,
        <<S_label, Str(<<"a">>)>>}

\* a pick of at most n properties out of a list of <<key, value>> choices:
\* positions in increasing order, 0 for none, naming different keys
IsPick(list, f) ==
  \A i, j \in DOMAIN f :
    IF i < j /\ f[i] # 0
      THEN f[i] < f[j] /\ list[f[i]][1] # list[f[j]][1]
      ELSE TRUE

Picked(f) == {f[i] : i \in DOMAIN f} \ {0}

\* the record holding the picked properties
Record(list, D) ==
  Literal([k \in {list[i][1] : i \in D} |->
             list[CHOOSE i \in D : list[i][1] = k][2]])

SubList == SeqOf(SubChoices)

StyleList == SeqOf(StyleChoices)

\* an object the identity accessors are handed: with or without an id
StyleIds == {Undefined, Null, Str(<<>>), Num(0), Str(<<"a">>)}

StyleObjects ==
  {Literal(S_name :> Str(<<"s">>))}
  \cup {Literal(S_id :> id) : id \in StyleIds}
  \cup {Literal((S_id :> id) @@ (S_name :> Str(<<"s">>))) : id \in StyleIds}

\* the ids setStyleId and initializeStyle are handed
IdArguments == {Undefined, Null, Str(<<>>), Num(0), Str(<<"d1">>), Str(<<"d2">>)}

\* the values uuid() may give
Uuids == {Str(<<"uuid-1">>), Str(<<"uuid-2">>)}

NoCall == [fn |-> "none", prefix |-> <<>>, arg |-> Undefined]

Call(fn, prefix, arg) == [fn |-> fn, prefix |-> prefix, arg |-> arg]

(***************************************************************************)
(* The calls.  No compiler assigns to the record, so a behaviour is one    *)
(* call on one record; a call on null or undefined reads a property of it  *)
(* and throws a TypeError, except for createStyle, which returns.          *)
(***************************************************************************)
TypeError == "TypeError"

Compile(fn, prefix, value) ==
  /\ call.fn = "none"
  /\ call' = Call(fn, prefix, Undefined)
  /\ IF IsNullish(vlStyle) /\ fn # "createStyle"
       THEN result' = Undefined /\ thrown' = TypeError
       ELSE result' = value /\ thrown' = ""
  /\ UNCHANGED <<vlStyle, style>>

CreateFillStyle ==
  \E p \in Prefixes : Compile("createFillStyle", p, createFillStyle(vlStyle, p, <<"fill">>))

CreateStrokeStyle ==
  \E p \in Prefixes :
    Compile("createStrokeStyle", p, createStrokeStyle(vlStyle, p, <<"stroke">>))

CreateImageStyle ==
  Compile("createImageStyle", S_empty, createImageStyle(vlStyle, <<"image">>))

CreateTextStyle ==
  Compile("createTextStyle", S_empty, createTextStyle(vlStyle, <<"text">>))

CreateGeomStyle == Compile("createGeomStyle", S_empty, createGeomStyle(vlStyle))

CreateStyle == Compile("createStyle", S_empty, createStyle(vlStyle))

Access(fn, arg, outcome) ==
  /\ call' = Call(fn, S_empty, arg)
  /\ style' = outcome.obj
  /\ result' = outcome.result
  /\ thrown' = outcome.thrown
  /\ UNCHANGED vlStyle

GetStyleId == Access("getStyleId", Undefined, getStyleId(style))

SetStyleId == \E id \in IdArguments : Access("setStyleId", id, setStyleId(style, id))

InitializeStyle ==
  \E id \in IdArguments, uuid \in Uuids :
    Access("initializeStyle", id, initializeStyle(style, id, uuid))

InitCalls == call = NoCall /\ result = Undefined /\ thrown = ""

\* the fill and stroke compilers are called on a record of flat fill and
\* stroke fields
InitSub ==
  /\ \E f \in [1..MaxSubKeys -> 0..Len(SubList)] :
       IsPick(SubList, f) /\ vlStyle = Record(SubList, Picked(f))
  /\ style = Literal(NoProps)
  /\ InitCalls

\* the compilers are called on a record of text, image and style fields, on
\* null or on undefined
Init ==
  /\ \/ \E f \in [1..MaxStyleKeys -> 0..Len(StyleList)] :
          IsPick(StyleList, f) /\ vlStyle = Record(StyleList, Picked(f))
     \/ vlStyle \in {Null, Undefined}
  /\ style = Literal(NoProps)
  /\ InitCalls

\* the identity accessors
InitId ==
  /\ vlStyle = Null
  /\ style \in StyleObjects
  /\ InitCalls

Next ==
  \/ CreateFillStyle
  \/ CreateStrokeStyle
  \/ CreateImageStyle
  \/ CreateTextStyle
  \/ CreateGeomStyle
  \/ CreateStyle

NextSub ==
  \/ CreateFillStyle
  \/ CreateStrokeStyle

NextId ==
  \/ GetStyleId
  \/ SetStyleId
  \/ InitializeStyle

Spec == Init /\ [][Next]_vars

SpecSub == InitSub /\ [][NextSub]_vars

SpecId == InitId /\ [][NextId]_vars

(***************************************************************************)
(* Properties.                                                             *)
(***************************************************************************)
\* the call `fn` was made and returned
Did(fn) == call.fn = fn /\ thrown = ""

\* the record with only the properties named in keys
Restrict(vl, keys) == Literal([k \in DOMAIN vl.props \cap keys |-> vl.props[k]])

\* the flat keys of the fill and of the stroke of a prefix
FlatFillKeys(p) == {FillColorKey(p)}

FlatStrokeKeys(p) ==
  {StrokeColorKey(p), StrokeWidthKey(p), StrokeMiterLimitKey(p), StrokeCapKey(p),
   StrokeJoinKey(p), StrokeDashKey(p), StrokeDashOffsetKey(p)}

\* the seven fields createStyle compiles
CompiledFields == {S_text, S_fill, S_stroke, S_image, S_geometry, S_zIndex, S_renderer}

\* C1: createStyle constructs a Style only when at least one of the seven
\* compiled fields (text, fill, stroke, image, geometry, zIndex, renderer) is
\* defined, and returns undefined otherwise.
C1_StyleOnlyWhenMeaningful ==
  (Did("createStyle") /\ InstanceOf(result, "Style")) =>
    \E k \in CompiledFields : Get(result, k) # Undefined

\* C2: a compiled sub-style is cached back onto the record under its compiled
\* key, so all compiles of one sub-style of one record give the identical
\* object: the Fill a createFillStyle call computes from a defined flat color
\* is the record's compiled fill afterwards, and within one createStyle call
\* the text's fill, when it is the unprefixed one, is the very object that is
\* the style's fill.
C2_OneObjectPerSubStyle ==
  /\ ( Did("createFillStyle") /\ result # Undefined /\
       ~IsNullish(Get(vlStyle, FillColorKey(call.prefix))) ) =>
       Get(vlStyle, FillKey(call.prefix)) = result
  /\ ( Did("createStyle") /\ InstanceOf(result, "Style") /\
       InstanceOf(Get(result, S_text), "Text") /\
       Get(vlStyle, S_text) # Get(result, S_text) /\
       createFillStyle(vlStyle, S_text, <<"fill">>) = Undefined ) =>
       Get(Get(result, S_text), S_fill) = Get(result, S_fill)

\* C3: a compiler whose record holds a compiled object under the compiled key
\* (a Fill, a Stroke, an Image style, a Text) returns exactly that object,
\* whatever the flat fields of that sub-style hold.
C3_ReuseCompiled ==
  /\ (Did("createFillStyle") /\ InstanceOf(Get(vlStyle, FillKey(call.prefix)), "Fill")) =>
       result = Get(vlStyle, FillKey(call.prefix))
  /\ ( Did("createStrokeStyle") /\
       InstanceOf(Get(vlStyle, StrokeKey(call.prefix)), "Stroke") ) =>
       result = Get(vlStyle, StrokeKey(call.prefix))
  /\ (Did("createImageStyle") /\ InstanceOf(Get(vlStyle, S_image), "Image")) =>
       result = Get(vlStyle, S_image)
  /\ (Did("createTextStyle") /\ InstanceOf(Get(vlStyle, S_text), "Text")) =>
       result = Get(vlStyle, S_text)

\* C3 happens: a record with a compiled fill and a flat fillColor, compiled
C3_Witness ==
  /\ Did("createFillStyle") /\ call.prefix = S_empty
  /\ InstanceOf(Get(vlStyle, S_fill), "Fill")
  /\ S_fillColor \in DOMAIN vlStyle.props
  /\ result = Get(vlStyle, S_fill)

\* C4: createFillStyle(record, p) and createStrokeStyle(record, p) depend only
\* on the keys carrying exactly the prefix p: the record cut down to those
\* keys compiles to the same result.
C4_PrefixScoping ==
  /\ Did("createFillStyle") =>
       result = createFillStyle(
                  Restrict(vlStyle, FlatFillKeys(call.prefix) \cup {FillKey(call.prefix)}),
                  call.prefix, <<"fill">>)
  /\ Did("createStrokeStyle") =>
       result = createStrokeStyle(
                  Restrict(vlStyle, FlatStrokeKeys(call.prefix) \cup {StrokeKey(call.prefix)}),
                  call.prefix, <<"stroke">>)

\* C4 happens: a prefixed compile of a record that also holds the unprefixed
\* key gives a Fill
C4_Witness ==
  /\ Did("createFillStyle") /\ call.prefix = S_image
  /\ {S_fillColor, FillColorKey(S_image)} \subseteq DOMAIN vlStyle.props
  /\ InstanceOf(result, "Fill")

\* C6: createFillStyle and createStrokeStyle return undefined unless the
\* record holds a compiled object or a defined, non-null value under one of
\* the flat keys of the prefix.
C6_NoSpuriousEmpty ==
  /\ (Did("createFillStyle") /\ result # Undefined) =>
       \/ InstanceOf(Get(vlStyle, FillKey(call.prefix)), "Fill")
       \/ \E k \in FlatFillKeys(call.prefix) : ~IsNullish(Get(vlStyle, k))
  /\ (Did("createStrokeStyle") /\ result # Undefined) =>
       \/ InstanceOf(Get(vlStyle, StrokeKey(call.prefix)), "Stroke")
       \/ \E k \in FlatStrokeKeys(call.prefix) : ~IsNullish(Get(vlStyle, k))

\* the reference mapping of C7: flat key -> option
StrokeOptions(p) ==
  {<<StrokeColorKey(p), S_color>>, <<StrokeWidthKey(p), S_width>>,
   <<StrokeMiterLimitKey(p), S_miterLimit>>, <<StrokeCapKey(p), S_lineCap>>,
   <<StrokeJoinKey(p), S_lineJoin>>, <<StrokeDashKey(p), S_lineDash>>,
   <<StrokeDashOffsetKey(p), S_lineDashOffset>>}

FillOptions(p) == {<<FillColorKey(p), S_color>>}

\* norm of C7: a string color becomes its parsed RGBA array, any other value
\* stays
Norm(value) == IF value.t = "string" THEN parseColorRgba(value.s) ELSE value

\* the options the reference mapping gives a record
Mapped(vl, mapping) ==
  LET present == {m \in mapping : m[1] \in DOMAIN vl.props}
  IN [o \in {m[2] : m \in present} |->
        LET m == CHOOSE x \in present : x[2] = o
        IN IF o = S_color THEN Norm(vl.props[m[1]]) ELSE vl.props[m[1]]]

\* C7: without a compiled object in the record, the Fill and the Stroke built
\* hold exactly the options of the reference mapping (color normalized, every
\* other value unchanged), and nothing is built when no flat key is present.
C7_ReferenceMapping ==
  /\ (Did("createFillStyle") /\ ~InstanceOf(Get(vlStyle, FillKey(call.prefix)), "Fill")) =>
       LET options == Mapped(vlStyle, FillOptions(call.prefix))
       IN result = IF DOMAIN options = {} THEN Undefined
                   ELSE Obj("Fill", <<"fill">>, options)
  /\ ( Did("createStrokeStyle") /\
       ~InstanceOf(Get(vlStyle, StrokeKey(call.prefix)), "Stroke") ) =>
       LET options == Mapped(vlStyle, StrokeOptions(call.prefix))
       IN result = IF DOMAIN options = {} THEN Undefined
                   ELSE Obj("Stroke", <<"stroke">>, options)

\* C7 happens: a prefixed Stroke with a parsed string color and a line cap
C7_Witness ==
  /\ Did("createStrokeStyle") /\ call.prefix = S_text
  /\ InstanceOf(result, "Stroke")
  /\ Get(vlStyle, StrokeColorKey(S_text)) = Str(<<"#3399cc">>)
  /\ Get(result, S_color) = Arr(<<51, 153, 204, 1>>)
  /\ Get(result, S_lineCap) = Str(<<"round">>)

\* the fill and stroke C8 expects under `at` for a prefix: the sub-style of
\* the prefixed keys alone when there is one, else that of the unprefixed
\* keys alone
ExpectedFill(vl, p, at) ==
  LET scoped == createFillStyle(Restrict(vl, FlatFillKeys(p) \cup {FillKey(p)}), p, at)
  IN IF scoped # Undefined THEN scoped
     ELSE createFillStyle(Restrict(vl, {S_fillColor, S_fill}), S_empty, at)

ExpectedStroke(vl, p, at) ==
  LET scoped == createStrokeStyle(Restrict(vl, FlatStrokeKeys(p) \cup {StrokeKey(p)}), p, at)
  IN IF scoped # Undefined THEN scoped
     ELSE createStrokeStyle(Restrict(vl, FlatStrokeKeys(S_empty) \cup {S_stroke}),
                            S_empty, at)

\* C8: in the Text and in the image built, fill and stroke are the prefixed
\* sub-style when there is one and the unprefixed one otherwise, never a mix;
\* the text background comes from the textBackground keys alone.
C8_FallbackPrecedence ==
  /\ ( Did("createTextStyle") /\ InstanceOf(result, "Text") /\
       result # Get(vlStyle, S_text) ) =>
       /\ Get(result, S_fill) = ExpectedFill(vlStyle, S_text, <<"text", "fill">>)
       /\ Get(result, S_stroke) = ExpectedStroke(vlStyle, S_text, <<"text", "stroke">>)
       /\ Get(result, S_backgroundFill) =
            createFillStyle(
              Restrict(vlStyle, {FillColorKey(S_textBackground), FillKey(S_textBackground)}),
              S_textBackground, <<"text", "backgroundFill">>)
       /\ Get(result, S_backgroundStroke) =
            createStrokeStyle(
              Restrict(vlStyle, FlatStrokeKeys(S_textBackground)
                                  \cup {StrokeKey(S_textBackground)}),
              S_textBackground, <<"text", "backgroundStroke">>)
  /\ ( Did("createImageStyle") /\ InstanceOf(result, "Image") /\
       result # Get(vlStyle, S_image) ) =>
       /\ Get(result, S_fill) = ExpectedFill(vlStyle, S_image, <<"image", "fill">>)
       /\ Get(result, S_stroke) = ExpectedStroke(vlStyle, S_image, <<"image", "stroke">>)

\* C8 happens: a text with both textFillColor and fillColor takes the color
\* of textFillColor
C8_Witness ==
  /\ Did("createTextStyle") /\ InstanceOf(result, "Text")
  /\ Get(vlStyle, S_fillColor) = Str(<<"red">>)
  /\ Get(vlStyle, FillColorKey(S_text)) = Arr(<<0, 153, 255, 1>>)
  /\ Get(Get(result, S_fill), S_color) = Arr(<<0, 153, 255, 1>>)

\* C9: createImageStyle returns undefined exactly when imageSrc, image and
\* imagePoints are empty and imageRadius is not numeric; otherwise, unless
\* image is a compiled image style, it builds an Icon when imageSrc or image
\* is not empty, else a RegularShape when imagePoints is not null, else a
\* Circle of radius imageRadius.
C9_ImageKind ==
  Did("createImageStyle") =>
    LET src == Get(vlStyle, S_imageSrc)
        image == Get(vlStyle, S_image)
        points == Get(vlStyle, S_imagePoints)
        radius == Get(vlStyle, S_imageRadius)
        nothing == isEmpty(src) /\ isEmpty(image) /\ isEmpty(points) /\ ~isNumeric(radius)
    IN /\ (result = Undefined) <=> nothing
       /\ (~nothing /\ ~InstanceOf(image, "Image")) =>
            /\ result.t = "object"
            /\ result.oid = <<"image">>
            /\ IF ~isEmpty(src) \/ ~isEmpty(image) THEN result.cls = "Icon"
               ELSE IF ~IsNullish(points) THEN result.cls = "RegularShape"
               ELSE (result.cls = "Circle" /\ Get(result, S_radius) = radius)

\* C9 happens: a record with imageSrc, imagePoints and imageRadius gives an
\* Icon
C9_Witness ==
  /\ Did("createImageStyle")
  /\ {S_imageSrc, S_imagePoints, S_imageRadius} \subseteq DOMAIN vlStyle.props
  /\ ~isEmpty(Get(vlStyle, S_imageSrc))
  /\ result.t = "object" /\ result.cls = "Icon"

\* C5: getStyleId and setStyleId throw 'Illegal style argument' exactly when
\* the object has no id field (never when it has one, whatever its value); a
\* call that throws leaves the object as it was, and initializeStyle on an
\* object without id throws the same error.
C5_IllegalExactlyWithoutId ==
  [][
    /\ call'.fn \in {"getStyleId", "setStyleId"} =>
         IF S_id \in DOMAIN style.props
           THEN thrown' = ""
           ELSE thrown' = IllegalStyleArgument
    /\ (call'.fn = "initializeStyle" /\ S_id \notin DOMAIN style.props) =>
         thrown' = IllegalStyleArgument
    /\ thrown' # "" => (style' = style /\ result' = Undefined)
  ]_vars

\* C5 happens: setStyleId threw on an object without id
C5_Witness ==
  /\ call.fn = "setStyleId" /\ ~IsNullish(call.arg)
  /\ thrown = IllegalStyleArgument
  /\ S_id \notin DOMAIN style.props

\* C10: on an object with an id field, initializeStyle leaves a non-null id
\* as it is, sets a null or undefined id to the default when that is truthy
\* and to a uuid otherwise, leaves the id non-null and every other field
\* unchanged, and returns the object.
C10_InitializeOnce ==
  [][
    (call'.fn = "initializeStyle" /\ S_id \in DOMAIN style.props) =>
      /\ ~IsNullish(style.props[S_id]) => style' = style
      /\ IsNullish(style.props[S_id]) =>
           IF Truthy(call'.arg) THEN style'.props[S_id] = call'.arg
           ELSE style'.props[S_id] \in Uuids
      /\ ~IsNullish(style'.props[S_id])
      /\ DOMAIN style'.props = DOMAIN style.props
      /\ \A k \in DOMAIN style.props \ {S_id} : style'.props[k] = style.props[k]
      /\ result' = style'
      /\ thrown' = ""
  ]_vars

\* C10 happens: initializeStyle without a usable default gave the object a
\* uuid and kept its other field
C10_Witness ==
  /\ call.fn = "initializeStyle" /\ ~Truthy(call.arg)
  /\ S_id \in DOMAIN style.props /\ style.props[S_id] \in Uuids
  /\ S_name \in DOMAIN style.props
  /\ result = style

====
